---- MODULE Spec2Model ----
(***************************************************************************)
(* Model of the CDS-ILS document migrator API                              *)
(* (cds_ils/migrator/documents/api.py) and of the CDSSerial translation    *)
(* index (cds_ils/importer/providers/cds/models/serial.py).                *)
(*                                                                         *)
(* Python strings are sequences of one-character strings, so that          *)
(* str(recid) and str.split(",") are computed and not assumed.             *)
(***************************************************************************)
EXTENDS Integers, Sequences, FiniteSets, TLC

VARIABLES
    pc,               \* position of the running function
    sources,          \* argument `sources`: the already opened dump files
    include_arg,      \* argument `include` as passed by the caller
    include,          \* local `include` after line 29 / line 54
    include_keys,     \* local `include_keys` of import_documents_from_record_file
    idx,              \* enumerate(sources, 1) index of the current source
    pos,              \* number of items of the current source consumed
    records,          \* local `records` of import_documents_from_record_file
    trace,            \* calls made to the migrator API and to the loggers
    outcome,          \* how the function ended: "running", "returned", or the exception
    index,            \* content of the document search index
    call,             \* the last search helper invoked, with its arguments
    result,           \* what that helper returned or raised
    blob,             \* legacy record given to the CDSSerial transform
    output            \* fields emitted by the transform

vars == <<pc, sources, include_arg, include, include_keys, idx, pos, records, trace,
          outcome, index, call, result, blob, output>>

-----------------------------------------------------------------------------
(* Bounds *)

MaxSources == 2
MaxItems == 2
MaxRecid == 2
MaxIncludeLen == 3
MaxPid == 2
MaxBarcode == 2

RecIds == 1..MaxRecid
Pids == 1..MaxPid
Barcodes == 1..MaxBarcode

-----------------------------------------------------------------------------
(* Python values *)

Digits == <<"0", "1", "2", "3", "4", "5", "6", "7", "8", "9">>

RECURSIVE str(_)
str(n) ==
    IF n < 10 THEN <<Digits[n + 1]>>
    ELSE str(n \div 10) \o <<Digits[(n % 10) + 1]>>

Range(s) == {s[i] : i \in 1..Len(s)}

\* Python values of the `include` variable: None, a str, or a list of str.
PyNone == [t |-> "None", s |-> <<>>, l |-> <<>>]
PyStr(s) == [t |-> "str", s |-> s, l |-> <<>>]
PyList(l) == [t |-> "list", s |-> <<>>, l |-> l]

RECURSIVE split(_)
split(s) ==
    IF \A i \in 1..Len(s) : s[i] # ","
    THEN <<s>>
    ELSE LET i == CHOOSE j \in 1..Len(s) :
                      s[j] = "," /\ \A k \in 1..(j - 1) : s[k] # ","
         IN <<SubSeq(s, 1, i - 1)>> \o split(SubSeq(s, i + 1, Len(s)))

\* `include if include is None else include.split(",")`
ParseInclude(v) ==
    IF v.t = "None" THEN v ELSE PyList(split(v.s))

\* Characters an id list is written with.
IncludeChars == {"1", "2", ","}

SeqsUpTo(S, n) == UNION {[1..m -> S] : m \in 0..n}

IncludeArgs == {PyNone} \cup {PyStr(s) : s \in SeqsUpTo(IncludeChars, MaxIncludeLen)}

Event(ev, src, p, recid, arg) ==
    [ev |-> ev, src |-> src, pos |-> p, recid |-> recid, arg |-> arg]

NoCall == [op |-> "none", barcode |-> 0, legacy_recid |-> 0]
NoResult == [kind |-> "none", pid |-> 0, exc |-> "", msg |-> ""]

-----------------------------------------------------------------------------
(* import_documents_from_dump *)

RECURSIVE TotalLen(_)
TotalLen(ss) == IF ss = <<>> THEN 0 ELSE Len(Head(ss)) + TotalLen(Tail(ss))

\* The `sources` of one call: at most MaxSources files holding at most
\* MaxItems records in all.
SourcesOf(Files) ==
    {ss \in SeqsUpTo(Files, MaxSources) : TotalLen(ss) <= MaxItems}

\* A dump file is a JSON list of records; a record is modelled by its recid.
DumpFiles == SeqsUpTo(RecIds, MaxItems)

InitDump ==
    /\ pc = "start"
    /\ sources \in SourcesOf(DumpFiles)
    /\ include_arg \in IncludeArgs
    /\ include = PyNone
    /\ include_keys = PyNone
    /\ idx = 0
    /\ pos = 0
    /\ records = <<>>
    /\ trace = <<>>
    /\ outcome = "running"
    /\ index = {}
    /\ call = NoCall
    /\ result = NoResult
    /\ blob = {}
    /\ output = {}

\* Variant of DumpIncluded that ignores the filter.
DumpIncludedNoFilter(recid) == TRUE

\* `include is None or str(item["recid"]) in include`
DumpIncluded(recid) ==
    include.t = "None" \/ str(recid) \in Range(include.l)

DumpParseInclude ==
    /\ pc = "start"
    /\ include' = ParseInclude(include_arg)
    /\ pc' = "sources"
    /\ UNCHANGED <<sources, include_arg, idx, pos, records, trace, outcome,
                   include_keys, index,
                   call, result, blob, output>>

DumpNextSource ==
    /\ pc = "sources"
    /\ idx < Len(sources)
    /\ idx' = idx + 1
    /\ pos' = 0
    /\ pc' = "items"
    /\ UNCHANGED <<sources, include_arg, include, records, trace, outcome,
                   include_keys, index,
                   call, result, blob, output>>

DumpReturn ==
    /\ pc = "sources"
    /\ idx = Len(sources)
    /\ pc' = "done"
    /\ outcome' = "returned"
    /\ UNCHANGED <<sources, include_arg, include, idx, pos, records, trace,
                   include_keys, index,
                   call, result, blob, output>>

DumpEndOfSource ==
    /\ pc = "items"
    /\ pos = Len(sources[idx])
    /\ pc' = "sources"
    /\ UNCHANGED <<sources, include_arg, include, idx, pos, records, trace,
                   outcome, include_keys, index,
                   call, result, blob, output>>

DumpSkipItem ==
    /\ pc = "items"
    /\ pos < Len(sources[idx])
    /\ ~DumpIncluded(sources[idx][pos + 1])
    /\ pos' = pos + 1
    /\ UNCHANGED <<pc, sources, include_arg, include, idx, records, trace,
                   outcome, include_keys, index,
                   call, result, blob, output>>

DumpCallImport ==
    /\ pc = "items"
    /\ pos < Len(sources[idx])
    /\ DumpIncluded(sources[idx][pos + 1])
    /\ pos' = pos + 1
    /\ trace' = Append(trace, Event("import_document_from_dump", idx, pos + 1,
                                    sources[idx][pos + 1], <<>>))
    /\ pc' = "importing"
    /\ UNCHANGED <<sources, include_arg, include, idx, records, outcome,
                   include_keys, index,
                   call, result, blob, output>>

\* What import_document_from_dump did, followed by the log line written for it.
DumpLog(how, ev) ==
    /\ trace' = trace \o <<Event(how, idx, pos, sources[idx][pos], <<>>),
                            Event(ev, idx, pos, sources[idx][pos], <<>>)>>
    /\ pc' = "items"
    /\ UNCHANGED <<sources, include_arg, include, idx, pos, records, outcome,
                   include_keys, index,
                   call, result, blob, output>>

\* Variant of DumpImported that writes no OK line.
DumpImportedNotLogged ==
    /\ pc = "importing"
    /\ trace' = Append(trace, Event("return", idx, pos, sources[idx][pos], <<>>))
    /\ pc' = "items"
    /\ UNCHANGED <<sources, include_arg, include, idx, pos, records, outcome,
                   include_keys, index,
                   call, result, blob, output>>

\* import_document_from_dump returned: migrated_logger.warning("#RECID n: OK")
DumpImported ==
    /\ pc = "importing"
    /\ DumpLog("return", "migrated_records OK")

\* Variant of DumpValidationError where the generic handler takes the error.
DumpValidationErrorAsError ==
    /\ pc = "importing"
    /\ DumpLog("raise IlsValidationError", "records_errored ERROR")

\* except IlsValidationError: records_logger.error("@RECID: n FATAL: ...")
DumpValidationError ==
    /\ pc = "importing"
    /\ DumpLog("raise IlsValidationError", "records_errored FATAL")

\* Variant of DumpException without the catch-all handler.
DumpExceptionPropagates ==
    /\ pc = "importing"
    /\ trace' = Append(trace, Event("raise Exception", idx, pos, sources[idx][pos], <<>>))
    /\ pc' = "done"
    /\ outcome' = "Exception"
    /\ UNCHANGED <<sources, include_arg, include, idx, pos, records,
                   include_keys, index,
                   call, result, blob, output>>

\* except Exception: records_logger.error("@RECID: n ERROR: ...")
DumpException ==
    /\ pc = "importing"
    /\ DumpLog("raise Exception", "records_errored ERROR")

NextDump ==
    \/ DumpParseInclude
    \/ DumpNextSource
    \/ DumpReturn
    \/ DumpEndOfSource
    \/ DumpSkipItem
    \/ DumpCallImport
    \/ DumpImported
    \/ DumpValidationError
    \/ DumpException

SpecDump == InitDump /\ [][NextDump]_vars

-----------------------------------------------------------------------------
(* Properties of import_documents_from_dump *)

\* The records of the dump files, each named by <<source, position>>.
Items == UNION {{<<s, p>> : p \in 1..Len(sources[s])} : s \in 1..Len(sources)}

RecidOf(it) == sources[it[1]][it[2]]

Before(a, b) == a[1] < b[1] \/ (a[1] = b[1] /\ a[2] < b[2])

\* Positions of the trace where event ev was recorded for record it.
EvIdx(ev, it) ==
    {i \in 1..Len(trace) :
        trace[i].ev = ev /\ trace[i].src = it[1] /\ trace[i].pos = it[2]}

Raises == {"raise IlsValidationError", "raise Exception"}
ErrorLogs == {"records_errored FATAL", "records_errored ERROR"}
Logs == {"migrated_records OK"} \cup ErrorLogs

\* The filter as the caller wrote it: the ids between the commas.
FilterIds == split(include_arg.s)

InFilter(recid) ==
    include_arg.t = "None" \/ \E i \in 1..Len(FilterIds) : FilterIds[i] = str(recid)

\* C1: a failure of import_document_from_dump (IlsValidationError or any
\* other Exception) is caught for that record alone: the run never ends with
\* an exception, and once it has ended every included record after a failed
\* one, in the same source or a later one, was passed to
\* import_document_from_dump after the failure.
C1_FailureDoesNotAbort ==
    /\ outcome \in {"running", "returned"}
    /\ pc = "done" =>
          \A a \in Items, b \in Items :
              (Before(a, b) /\ InFilter(RecidOf(b))) =>
                  \A r \in Raises : \A i \in EvIdx(r, a) :
                      \E j \in EvIdx("import_document_from_dump", b) : j > i

C1_Witness ==
    /\ pc = "done"
    /\ outcome = "returned"
    /\ \E a \in Items, b \in Items :
          /\ Before(a, b)
          /\ EvIdx("raise IlsValidationError", a) \cup EvIdx("raise Exception", a) # {}
          /\ EvIdx("import_document_from_dump", b) # {}

\* C2: a record rejected by destination validation (IlsValidationError) is
\* logged as FATAL in records_errored right away and never gets an OK entry
\* in migrated_records; a record failing with any other exception is logged
\* in records_errored as ERROR and not as FATAL.
C2_FatalVersusError ==
    \A i \in 1..Len(trace) :
        LET it == <<trace[i].src, trace[i].pos>> IN
        /\ trace[i].ev = "raise IlsValidationError" =>
              /\ i < Len(trace)
              /\ i + 1 \in EvIdx("records_errored FATAL", it)
              /\ trace[i + 1].recid = RecidOf(it)
              /\ EvIdx("migrated_records OK", it) = {}
              /\ EvIdx("records_errored ERROR", it) = {}
        /\ trace[i].ev = "raise Exception" =>
              /\ i < Len(trace)
              /\ i + 1 \in EvIdx("records_errored ERROR", it)
              /\ trace[i + 1].recid = RecidOf(it)
              /\ EvIdx("records_errored FATAL", it) = {}

C2_Witness ==
    /\ pc = "done"
    /\ \E i \in 1..Len(trace) : trace[i].ev = "records_errored FATAL"
    /\ \E i \in 1..Len(trace) : trace[i].ev = "records_errored ERROR"

NumCalls == Cardinality({i \in 1..Len(trace) : trace[i].ev = "import_document_from_dump"})

\* C3 as stated: with a filter of k ids (k <= N) exactly k records are
\* passed to import_document_from_dump, and all N when the filter is None.
C3_ExactlyKProcessed ==
    pc = "done" =>
        IF include_arg.t = "None"
        THEN NumCalls = Cardinality(Items)
        ELSE Len(FilterIds) <= Cardinality(Items) => NumCalls = Len(FilterIds)

\* C3 amended: import_document_from_dump is invoked exactly once for each
\* record whose recid, as a string, is one of the ids of the filter (for
\* every record when the filter is None) and for no other record; that makes
\* k invocations when the k ids of the filter are distinct and each is the
\* recid of exactly one record of the dump.
C3_OncePerRecordInFilter ==
    pc = "done" =>
        /\ \A it \in Items :
              Cardinality(EvIdx("import_document_from_dump", it)) =
                  IF InFilter(RecidOf(it)) THEN 1 ELSE 0
        /\ \A i \in 1..Len(trace) :
              trace[i].ev = "import_document_from_dump" =>
                  /\ <<trace[i].src, trace[i].pos>> \in Items
                  /\ trace[i].recid = RecidOf(<<trace[i].src, trace[i].pos>>)
        /\ include_arg.t = "None" => NumCalls = Cardinality(Items)
        /\ ( /\ include_arg.t = "str"
             /\ \A i, j \in 1..Len(FilterIds) : FilterIds[i] = FilterIds[j] => i = j
             /\ \A i \in 1..Len(FilterIds) :
                   Cardinality({it \in Items : str(RecidOf(it)) = FilterIds[i]}) = 1 )
            => NumCalls = Len(FilterIds)

C3_Witness ==
    /\ pc = "done"
    /\ include_arg.t = "str"
    /\ Len(FilterIds) = 1
    /\ NumCalls = 1
    /\ Cardinality(Items) = 2

\* C10: every included record produces exactly one log entry in total,
\* either OK in migrated_records or FATAL/ERROR in records_errored, written
\* after its import ended and before the next record is started; a record
\* excluded by the filter causes no call and no entry in either log.
C10_OneLogEntryPerRecord ==
    LET items == Items
        ids == Range(FilterIds)
        included(recid) == include_arg.t = "None" \/ str(recid) \in ids
        logs(it) == {i \in 1..Len(trace) :
                        /\ trace[i].ev \in Logs
                        /\ trace[i].src = it[1]
                        /\ trace[i].pos = it[2]}
    IN
    /\ \A i \in 1..Len(trace) :
          /\ <<trace[i].src, trace[i].pos>> \in items
          /\ included(trace[i].recid)
          /\ trace[i].ev \in Logs =>
                /\ i >= 3
                /\ trace[i - 2].ev = "import_document_from_dump"
                /\ trace[i - 2].src = trace[i].src
                /\ trace[i - 2].pos = trace[i].pos
                /\ trace[i].ev = "migrated_records OK" => trace[i - 1].ev = "return"
                /\ trace[i].ev \in ErrorLogs => trace[i - 1].ev \in Raises
          /\ (trace[i].ev = "import_document_from_dump" /\ i > 1) =>
                trace[i - 1].ev \in Logs
    /\ \A it \in items :
          LET n == Cardinality(logs(it)) IN
          /\ n <= 1
          /\ pc = "done" => n = (IF included(RecidOf(it)) THEN 1 ELSE 0)

C10_Witness ==
    /\ pc = "done"
    /\ \E it \in Items : \E ev \in Logs : EvIdx(ev, it) # {}
    /\ \E it \in Items : ~InFilter(RecidOf(it))

-----------------------------------------------------------------------------
(* import_documents_from_record_file *)

\* A records file is a JSON object: entries with distinct keys, in file
\* order.  An entry is modelled by the number its key is written from.
RecordFiles ==
    {f \in SeqsUpTo(RecIds, MaxItems) :
        \A i, j \in 1..Len(f) : f[i] = f[j] => i = j}

InitFile ==
    /\ pc = "start"
    /\ sources \in SourcesOf(RecordFiles)
    /\ include_arg \in IncludeArgs
    /\ include = PyNone
    /\ include_keys = PyNone
    /\ idx = 0
    /\ pos = 0
    /\ records = <<>>
    /\ trace = <<>>
    /\ outcome = "running"
    /\ index = {}
    /\ call = NoCall
    /\ result = NoResult
    /\ blob = {}
    /\ output = {}

\* v.split(","): a method of str; any other value has no such attribute.
SplitMethod(v) ==
    IF v.t = "str" THEN PyList(split(v.s))
    ELSE [t |-> "AttributeError", s |-> <<>>, l |-> <<>>]

\* `None if include is None else include.split(",")`
IncludeKeys(v) == IF v.t = "None" THEN PyNone ELSE SplitMethod(v)

\* `include_keys is None or key in include_keys`
FileIncluded(key) ==
    include_keys.t = "None" \/ key \in Range(include_keys.l)

\* lines 29-30
FileParseInclude ==
    /\ pc = "start"
    /\ include' = ParseInclude(include_arg)
    /\ records' = <<>>
    /\ pc' = "sources"
    /\ UNCHANGED <<sources, include_arg, include_keys, idx, pos, trace,
                   outcome, index, call, result, blob, output>>

\* lines 31-40: the next source is opened, include_keys computed and
\* `records` emptied.
FileNextSource ==
    /\ pc = "sources"
    /\ idx < Len(sources)
    /\ IncludeKeys(include).t # "AttributeError"
    /\ idx' = idx + 1
    /\ include_keys' = IncludeKeys(include)
    /\ records' = <<>>
    /\ pos' = 0
    /\ pc' = "items"
    /\ UNCHANGED <<sources, include_arg, include, trace, outcome, index,
                   call, result, blob, output>>

\* line 38 raises and nothing catches it.
FileSplitRaises ==
    /\ pc = "sources"
    /\ idx < Len(sources)
    /\ IncludeKeys(include).t = "AttributeError"
    /\ idx' = idx + 1
    /\ pc' = "done"
    /\ outcome' = "AttributeError"
    /\ UNCHANGED <<sources, include_arg, include, include_keys, pos, records,
                   trace, index, call, result, blob, output>>

\* lines 41-46: one entry of the file, imported when the filter lets it in.
FileEntry ==
    /\ pc = "items"
    /\ pos < Len(sources[idx])
    /\ pos' = pos + 1
    /\ IF FileIncluded(str(sources[idx][pos + 1]))
       THEN /\ trace' = Append(trace, Event("import_record", idx, pos + 1,
                                            sources[idx][pos + 1], <<>>))
            /\ pc' = "importing"
       ELSE UNCHANGED <<trace, pc>>
    /\ UNCHANGED <<sources, include_arg, include, include_keys, idx, records,
                   outcome, index, call, result, blob, output>>

\* lines 46-47: import_record returned the new record.
FileImported ==
    /\ pc = "importing"
    /\ trace' = Append(trace, Event("return", idx, pos, sources[idx][pos], <<>>))
    /\ records' = Append(records, <<idx, pos>>)
    /\ pc' = "items"
    /\ UNCHANGED <<sources, include_arg, include, include_keys, idx, pos,
                   outcome, index, call, result, blob, output>>

\* line 46: import_record raised; the function has no handler.
FileImportRaises ==
    /\ pc = "importing"
    /\ trace' = Append(trace, Event("raise Exception", idx, pos,
                                    sources[idx][pos], <<>>))
    /\ pc' = "done"
    /\ outcome' = "Exception"
    /\ UNCHANGED <<sources, include_arg, include, include_keys, idx, pos,
                   records, index, call, result, blob, output>>

FileEndOfSource ==
    /\ pc = "items"
    /\ pos = Len(sources[idx])
    /\ pc' = "sources"
    /\ UNCHANGED <<sources, include_arg, include, include_keys, idx, pos,
                   records, trace, outcome, index, call, result, blob, output>>

\* line 49
FileBulkIndex ==
    /\ pc = "sources"
    /\ idx = Len(sources)
    /\ trace' = Append(trace, Event("bulk_index_records", 0, 0, 0, records))
    /\ pc' = "done"
    /\ outcome' = "returned"
    /\ UNCHANGED <<sources, include_arg, include, include_keys, idx, pos,
                   records, index, call, result, blob, output>>

NextFile ==
    \/ FileParseInclude
    \/ FileNextSource
    \/ FileSplitRaises
    \/ FileEntry
    \/ FileImported
    \/ FileImportRaises
    \/ FileEndOfSource
    \/ FileBulkIndex

SpecFile == InitFile /\ [][NextFile]_vars

-----------------------------------------------------------------------------
(* Properties of import_documents_from_record_file *)

EvPositions(ev) == {i \in 1..Len(trace) : trace[i].ev = ev}

\* C4: with a comma-separated id list as filter, import_record is invoked
\* for exactly the entries whose key is in the list and for no other entry,
\* with None for every entry, and in both cases the call runs to completion
\* (stated for the runs in which import_record itself does not raise).
C4_FilteredImportCompletes ==
    (pc = "done" /\ EvPositions("raise Exception") = {}) =>
        /\ outcome = "returned"
        /\ \A it \in Items :
              Cardinality(EvIdx("import_record", it)) =
                  IF InFilter(RecidOf(it)) THEN 1 ELSE 0

\* C5: bulk_index_records is invoked exactly once per run, after the last
\* import_record call, whatever the sources and the per-record outcomes.
C5_BulkIndexExactlyOnce ==
    pc = "done" =>
        /\ Cardinality(EvPositions("bulk_index_records")) = 1
        /\ trace[Len(trace)].ev = "bulk_index_records"

\* The records import_record returned during the run, in import order.
RECURSIVE ReturnedUpTo(_)
ReturnedUpTo(n) ==
    IF n = 0 THEN <<>>
    ELSE IF trace[n].ev = "return"
         THEN Append(ReturnedUpTo(n - 1), <<trace[n].src, trace[n].pos>>)
         ELSE ReturnedUpTo(n - 1)

\* C6: the list handed to bulk_index_records holds exactly the records
\* import_record returned for the included entries of every source file of
\* the call, in import order.
C6_AllImportedRecordsIndexed ==
    \A i \in EvPositions("bulk_index_records") :
        trace[i].arg = ReturnedUpTo(i)

-----------------------------------------------------------------------------
(* Search helpers *)

\* The indexed documents; a pid names one document.
InitSearch ==
    /\ pc = "idle"
    /\ \E present \in SUBSET Pids :
         \E f \in [present -> [legacy_recid : RecIds, barcodes : SUBSET Barcodes]] :
             index = {[pid |-> p, legacy_recid |-> f[p].legacy_recid,
                       barcodes |-> f[p].barcodes] : p \in present}
    /\ sources = <<>>
    /\ include_arg = PyNone
    /\ include = PyNone
    /\ include_keys = PyNone
    /\ idx = 0
    /\ pos = 0
    /\ records = <<>>
    /\ trace = <<>>
    /\ outcome = "running"
    /\ call = NoCall
    /\ result = NoResult
    /\ blob = {}
    /\ output = {}

Return(pid) == [kind |-> "return", pid |-> pid, exc |-> "", msg |-> ""]
Raise(exc, msg) == [kind |-> "raise", pid |-> 0, exc |-> exc, msg |-> msg]

\* document_class.get_record_by_pid(result.hits[0].pid)
FirstHit(hits) == Return((CHOOSE d \in hits : TRUE).pid)

get_document_by_barcode(barcode, legacy_recid) ==
    LET hits == {d \in index : barcode \in d.barcodes}
        hits_total == Cardinality(hits)
    IN IF hits_total = 1
       THEN FirstHit(hits)
       ELSE Raise("DocumentMigrationError",
                  "found more than one document with barcode")

\* Variant of get_document_by_legacy_recid with the single else branch of
\* get_document_by_barcode.
get_document_by_legacy_recid_OneMessage(legacy_recid) ==
    LET hits == {d \in index : d.legacy_recid = legacy_recid}
        hits_total == Cardinality(hits)
    IN IF hits_total = 1
       THEN FirstHit(hits)
       ELSE Raise("DocumentMigrationError",
                  "found more than one document with recid")

get_document_by_legacy_recid(legacy_recid) ==
    LET hits == {d \in index : d.legacy_recid = legacy_recid}
        hits_total == Cardinality(hits)
    IN IF hits_total = 1
       THEN FirstHit(hits)
       ELSE IF hits_total = 0
            THEN Raise("DocumentMigrationError",
                       "no document found with legacy recid")
            ELSE Raise("DocumentMigrationError",
                       "found more than one document with recid")

CallBarcode ==
    /\ pc = "idle"
    /\ \E barcode \in Barcodes, legacy_recid \in RecIds :
         /\ call' = [op |-> "get_document_by_barcode", barcode |-> barcode,
                     legacy_recid |-> legacy_recid]
         /\ result' = get_document_by_barcode(barcode, legacy_recid)
    /\ UNCHANGED <<pc, sources, include_arg, include, include_keys, idx, pos,
                   records, trace, outcome, index, blob, output>>

CallLegacyRecid ==
    /\ pc = "idle"
    /\ \E legacy_recid \in RecIds :
         /\ call' = [op |-> "get_document_by_legacy_recid", barcode |-> 0,
                     legacy_recid |-> legacy_recid]
         /\ result' = get_document_by_legacy_recid(legacy_recid)
    /\ UNCHANGED <<pc, sources, include_arg, include, include_keys, idx, pos,
                   records, trace, outcome, index, blob, output>>

NextSearch ==
    \/ CallBarcode
    \/ CallLegacyRecid

SpecSearch == InitSearch /\ [][NextSearch]_vars

-----------------------------------------------------------------------------
(* Properties of the search helpers *)

WithRecid(r) == {d \in index : d.legacy_recid = r}
WithBarcode(b) == {d \in index : b \in d.barcodes}

\* C7: get_document_by_legacy_recid returns the record of the single hit
\* when exactly one document has the legacy recid, and raises
\* DocumentMigrationError otherwise, saying "no document found" for zero
\* hits and "found more than one document" for several; it returns no record
\* in those cases.
C7_LegacyRecidLookup ==
    call.op = "get_document_by_legacy_recid" =>
        LET n == Cardinality(WithRecid(call.legacy_recid)) IN
        /\ n = 1 => /\ result.kind = "return"
                    /\ \E d \in WithRecid(call.legacy_recid) : d.pid = result.pid
        /\ n = 0 => /\ result.kind = "raise"
                    /\ result.exc = "DocumentMigrationError"
                    /\ result.msg = "no document found with legacy recid"
        /\ n > 1 => /\ result.kind = "raise"
                    /\ result.exc = "DocumentMigrationError"
                    /\ result.msg = "found more than one document with recid"

C7_Witness ==
    /\ call.op = "get_document_by_legacy_recid"
    /\ result.kind = "raise"
    /\ WithRecid(call.legacy_recid) = {}
    /\ \E r \in RecIds : Cardinality(WithRecid(r)) > 1

\* C8: get_document_by_barcode returns the document when exactly one
\* document has the barcode, and otherwise raises a DocumentMigrationError
\* that tells zero results from multiple results: the error for zero hits is
\* not the error raised for more than one hit.
C8_BarcodeLookupDistinguishes ==
    call.op = "get_document_by_barcode" =>
        LET n == Cardinality(WithBarcode(call.barcode)) IN
        /\ n = 1 => /\ result.kind = "return"
                    /\ \E d \in WithBarcode(call.barcode) : d.pid = result.pid
        /\ n > 1 => /\ result.kind = "raise"
                    /\ result.exc = "DocumentMigrationError"
                    /\ result.msg = "found more than one document with barcode"
        /\ n = 0 => /\ result.kind = "raise"
                    /\ result.exc = "DocumentMigrationError"
                    /\ result.msg # "found more than one document with barcode"

-----------------------------------------------------------------------------
(* CDSSerial *)

\* The ignore set shared by the CDS models (ignore_fields.py), represented
\* by three tags.
CDS_IGNORE_FIELDS == {"003", "005", "960__c"}

model_ignore_keys ==
    {"020__a", "020__b", "020__c", "020__u", "022__a", "022__b", "0247_2",
     "0247_9", "0247_a", "0247_q", "0247_y", "0248_q", "035__9", "035__a",
     "035__d", "035__h", "035__m", "035__t", "035__u", "035_a9", "035_aa",
     "037__9", "037__a", "037__c", "041__a", "044__a", "050_4a", "050__a",
     "080__a", "082042", "08204a", "082__a", "084__2", "084__a", "088__9",
     "088__a", "100__a", "100__e", "100__u", "100__9", "110__a", "111__9",
     "111__a", "111__c", "111__g", "111__n", "111__w", "111__y", "111__z",
     "210__a", "222__a", "242__a", "245__9", "245__a", "245__b", "245__c",
     "246__a", "246__i", "246__n", "246__p", "250__a", "260__a", "260__b",
     "260__c", "270__a", "270__d", "270__k", "270__l", "270__m", "300__a",
     "300__b", "310__a", "4901_a", "490__v", "500__9", "500__a", "5050_a",
     "505__a", "505__t", "520__9", "520__a", "536__a", "536__c", "536__f",
     "536__r", "540__3", "540__a", "540__u", "541__9", "542__3", "542__d",
     "542__g", "583__c", "595__9", "595__a", "595__i", "595__z", "65027b",
     "6531_9", "6531_a", "690C_a", "690c_a", "693__a", "693__e", "695__9",
     "695__a", "697C_a", "700__0", "700__9", "700__a", "700__e", "700__i",
     "700__u", "710__5", "710__a", "710__e", "710__g", "711__9", "711__a",
     "711__c", "711__d", "711__f", "711__g", "711__n", "711__w", "711__z",
     "773__c", "773__n", "773__p", "773__v", "773__w", "773__y", "773__y",
     "775__a", "775__b", "775__c", "775__w", "852__p", "8564_8", "8564_s",
     "8564_t", "8564_u", "8564_w", "8564_x", "8564_y", "859__f", "901__u",
     "912__f", "912__r", "916__a", "916__s", "916__w", "933__a", "933__b",
     "938__a", "938__p", "960__a", "962__k", "970__a", "970__d", "980__a",
     "980__b", "980__c", "993__r", "999C6a"}

\* Variant of ignore_keys that leaves the model's own keys out.
ignore_keys_BaseOnly == CDS_IGNORE_FIELDS

\* `__ignore_keys__ = CDS_IGNORE_FIELDS | __model_ignore_keys__`
ignore_keys == CDS_IGNORE_FIELDS \cup model_ignore_keys

\* Tags of the legacy records given to the transform: ignored by the model,
\* ignored by the shared set, and not ignored (two of them differing from an
\* ignored tag in one character only).
LegacyTags ==
    {"245__a", "690C_a", "490__v", "003", "960__c", "490__a", "245__A", "690C_b"}

InitSerial ==
    /\ pc = "idle"
    /\ blob \in SUBSET LegacyTags
    /\ output = {}
    /\ sources = <<>>
    /\ include_arg = PyNone
    /\ include = PyNone
    /\ include_keys = PyNone
    /\ idx = 0
    /\ pos = 0
    /\ records = <<>>
    /\ trace = <<>>
    /\ outcome = "running"
    /\ index = {}
    /\ call = NoCall
    /\ result = NoResult

\* The transform of a legacy record: a tag of the ignore set is not read,
\* every other tag yields the field derived from it.
do(b) == {[tag |-> t] : t \in {k \in b : k \notin ignore_keys}}

SerialDo ==
    /\ pc = "idle"
    /\ output' = do(blob)
    /\ pc' = "done"
    /\ UNCHANGED <<sources, include_arg, include, include_keys, idx, pos,
                   records, trace, outcome, index, call, result, blob>>

NextSerial == SerialDo

SpecSerial == InitSerial /\ [][NextSerial]_vars

====
